---- MODULE Spec2Model ----
(***************************************************************************)
(* Model of the voice-capture session controller of                        *)
(* frontend/src/pages/Voice.tsx: the React component state, the handlers   *)
(* it attaches to the browser's SpeechRecognition object, the toggle       *)
(* action and the fire-and-forget POST of the final transcript.            *)
(*                                                                         *)
(* A string is a sequence of one-character strings, so that trim() and     *)
(* concatenation are computed rather than assumed.  Messages shown to the  *)
(* user are TLA+ strings built the way the template literals build them.   *)
(*                                                                         *)
(* JavaScript runs each handler to completion and React renders between    *)
(* two of them, so every handler is one atomic action that reads the       *)
(* state the previous one left.  The recogniser and the server are the     *)
(* environment: the recogniser is inactive, capturing or winding down      *)
(* ("stopping": stop() was called or an error was raised, "end" is still   *)
(* to come), and may deliver results until it fires "end".                 *)
(***************************************************************************)
EXTENDS Integers, Sequences, FiniteSets, TLC

\* ---------------------------------------------------------------- bounds
\* Characters the transcript buffers (final and interim together) may hold.
MaxLen == 2
\* Requests that may be in flight at once.
MaxPending == 1
\* Results carried by one result event.
MaxFrags == 2

\* ------------------------------------------------------------ vocabulary
\* Fragment texts the recogniser may report: a word and a blank; longer
\* texts, with blanks at either end, arise as concatenations.
FragTexts == { <<"a">>, <<" ">> }

\* One entry of event.results: result[0].transcript and result.isFinal.
Results == [transcript : FragTexts, isFinal : BOOLEAN]

\* Lists of at most n entries.
ResultLists(n) == UNION { [1..k -> Results] : k \in 0..n }

\* The entries of event.results below event.resultIndex are results of
\* earlier events, which the handler does not read: k final results "a".
Earlier(k) == [i \in 1..k |-> [transcript |-> <<"a">>, isFinal |-> TRUE]]

\* event.error codes: the two the handler names, and another.
ErrorCodes == { "not-allowed", "no-speech", "network" }

\* What a fetch can come to: a 2xx response, a non-2xx response, a
\* rejected promise.
FetchOutcomes == { "ok", "status500", "rejected" }

\* setError(null)
Null == "null"

\* ------------------------------------------------------- pure functions
IsSpace(c) == c = " "

RECURSIVE TrimStart(_)
TrimStart(s) ==
  IF s = <<>> THEN <<>>
  ELSE IF IsSpace(Head(s)) THEN TrimStart(Tail(s)) ELSE s

RECURSIVE TrimEnd(_)
TrimEnd(s) ==
  IF s = <<>> THEN <<>>
  ELSE IF IsSpace(s[Len(s)]) THEN TrimEnd(SubSeq(s, 1, Len(s) - 1)) ELSE s

\* String.prototype.trim
Trim(s) == TrimEnd(TrimStart(s))

\* MergeLoop with "interimTranscript = text" for "interimTranscript += text".
RECURSIVE MergeLoopOverwriting(_, _, _)
MergeLoopOverwriting(results, i, acc) ==
  IF i >= Len(results) THEN acc
  ELSE LET result == results[i + 1]
           text   == result.transcript
       IN  IF result.isFinal
           THEN MergeLoopOverwriting(results, i + 1, <<acc[1] \o text, acc[2]>>)
           ELSE MergeLoopOverwriting(results, i + 1, <<acc[1], text>>)

\* The loop of recognition.onresult: i is the 0-based index the loop is at,
\* acc = <<finalTranscriptRef.current, interimTranscript>>.
RECURSIVE MergeLoop(_, _, _)
MergeLoop(results, i, acc) ==
  IF i >= Len(results) THEN acc
  ELSE LET result == results[i + 1]
           text   == result.transcript
       IN  IF result.isFinal
           THEN MergeLoop(results, i + 1, <<acc[1] \o text, acc[2]>>)
           ELSE MergeLoop(results, i + 1, <<acc[1], acc[2] \o text>>)

\* The message recognition.onerror shows for an event.error code.
RecognitionErrorMessage(code) ==
  IF code = "not-allowed"
  THEN "Microphone access denied. Please allow microphone permissions."
  ELSE IF code = "no-speech"
       THEN "No speech detected. Please try again."
       ELSE "Speech recognition error: " \o code

\* The message of the Error sendTranscript catches.
FetchErrorMessage(outcome) ==
  IF outcome = "status500"
  THEN "Request failed with status 500"
  ELSE "Failed to fetch"

DispatchFailureMessage(outcome) ==
  "Failed to send transcript: " \o FetchErrorMessage(outcome)

UnsupportedMessage == "Speech recognition is not supported in this browser."

AlreadyRunningMessage ==
  "Speech recognition is already running. Please wait a moment and try again."

StartFailedMessage == "Unable to start speech recognition. Please try again."

\* The message toggleListening's catch shows for what start() threw.
StartErrorMessage(thrown) ==
  IF thrown = "InvalidStateError" THEN AlreadyRunningMessage
  ELSE StartFailedMessage

\* ----------------------------------------------------------------- state
VARIABLES
  isListening,          \* useState(false)
  transcript,           \* useState("")
  error,                \* useState<string | null>(null)
  isSupported,          \* useState(true)
  recognitionRef,       \* useRef(null): "recognition" or "null"
  finalTranscriptRef,   \* useRef("")
  handlers,             \* which of onresult/onerror/onend are attached
  mounted,              \* the component is mounted
  capState,             \* the recogniser: "inactive", "capturing", "stopping"
  pending,              \* fetches in flight: of the current session, of earlier ones
  dispatches,           \* requests sent for the recogniser's current session
  lastInput,            \* "input" of the request sent last
  lastCall,             \* recogniser method the last step called, if any
  sessionFinals,        \* history: final texts merged in this session
  sinceStart,           \* history: final texts merged since the last start request
  lastInterims,         \* history: non-final texts of the last result event
  late                  \* history: a final text was merged in this session
                        \*          while isListening was false

vars == << isListening, transcript, error, isSupported, recognitionRef,
           finalTranscriptRef, handlers, mounted, capState, pending,
           dispatches, lastInput, lastCall, sessionFinals, sinceStart, lastInterims,
           late >>

reactState == << isListening, transcript, error, isSupported >>
network == << pending, dispatches, lastInput >>
history == << sessionFinals, sinceStart, lastInterims, late >>

AllHandlers == { "onresult", "onerror", "onend" }

\* The state once the mount effect has run: the probe found the
\* constructor (available) or did not.
InitWith(available) ==
  /\ isListening = FALSE
  /\ transcript = <<>>
  /\ error = Null
  /\ isSupported = available
  /\ recognitionRef = IF available THEN "recognition" ELSE "null"
  /\ finalTranscriptRef = <<>>
  /\ handlers = IF available THEN AllHandlers ELSE {}
  /\ mounted = TRUE
  /\ capState = "inactive"
  /\ pending = [current |-> 0, earlier |-> 0]
  /\ dispatches = 0
  /\ lastInput = <<>>
  /\ lastCall = "none"
  /\ sessionFinals = <<>>
  /\ sinceStart = <<>>
  /\ lastInterims = <<>>
  /\ late = FALSE

Init == \E available \in BOOLEAN : InitWith(available)

\* ------------------------------------------------- the recogniser's side
\* recognition.stop(): a capturing recogniser winds down and will fire
\* "end"; otherwise the call does nothing.
RecognitionStop(state) == IF state = "capturing" THEN "stopping" ELSE state

\* What recognition.start() may throw: InvalidStateError while a session is
\* still open (capturing or winding down), otherwise nothing ("none") or
\* some other exception.
StartThrows(state) ==
  IF state # "inactive" THEN { "InvalidStateError" } ELSE { "none", "Error" }

\* The slice of event.results the handler walks, as a sequence.
Slice(results, resultIndex) == SubSeq(results, resultIndex + 1, Len(results))

RECURSIVE TextsOf(_, _)
\* The texts of the entries of rs whose isFinal equals final, in order.
TextsOf(rs, final) ==
  IF rs = <<>> THEN <<>>
  ELSE IF Head(rs).isFinal = final
       THEN <<Head(rs).transcript>> \o TextsOf(Tail(rs), final)
       ELSE TextsOf(Tail(rs), final)

RECURSIVE Concat(_)
\* The concatenation of a sequence of texts.
Concat(texts) ==
  IF texts = <<>> THEN <<>> ELSE Head(texts) \o Concat(Tail(texts))

\* ------------------------------------------------------------- handlers
\* toggleListening without its first test: the start branch runs although
\* recognitionRef.current is null.
ToggleUnsupportedStarting ==
  /\ recognitionRef = "null"
  /\ transcript' = <<>>
  /\ finalTranscriptRef' = <<>>
  /\ error' = StartFailedMessage
  /\ isListening' = FALSE
  /\ lastCall' = "start"
  /\ sinceStart' = <<>>
  /\ lastInterims' = <<>>
  /\ UNCHANGED << isSupported, recognitionRef, handlers, mounted, capState,
                  network, sessionFinals, late >>

\* toggleListening, recognitionRef.current is null.
ToggleUnsupported ==
  /\ recognitionRef = "null"
  /\ error' = UnsupportedMessage
  /\ lastCall' = "none"
  /\ UNCHANGED << isListening, transcript, isSupported, recognitionRef,
                  finalTranscriptRef, handlers, mounted, capState, network,
                  history >>

\* ToggleStop without the isListening test: every toggle of a supported
\* controller may stop.
ToggleStopAlways ==
  /\ recognitionRef # "null"
  /\ capState' = RecognitionStop(capState)
  /\ lastCall' = "stop"
  /\ isListening' = FALSE
  /\ UNCHANGED << transcript, error, isSupported, recognitionRef,
                  finalTranscriptRef, handlers, mounted, network, history >>

\* ToggleStop sending the transcript itself, as well as onend.
ToggleStopSending ==
  /\ recognitionRef # "null"
  /\ isListening
  /\ capState' = RecognitionStop(capState)
  /\ lastCall' = "stop"
  /\ isListening' = FALSE
  /\ IF Trim(finalTranscriptRef) # <<>>
     THEN /\ pending.current + pending.earlier < MaxPending
          /\ pending' = [pending EXCEPT !.current = @ + 1]
          /\ dispatches' = dispatches + 1
          /\ lastInput' = Trim(finalTranscriptRef)
     ELSE UNCHANGED network
  /\ UNCHANGED << transcript, error, isSupported, recognitionRef,
                  finalTranscriptRef, handlers, mounted, history >>

\* toggleListening, isListening is true: stop().
ToggleStop ==
  /\ recognitionRef # "null"
  /\ isListening
  /\ capState' = RecognitionStop(capState)
  /\ lastCall' = "stop"
  /\ isListening' = FALSE
  /\ UNCHANGED << transcript, error, isSupported, recognitionRef,
                  finalTranscriptRef, handlers, mounted, network, history >>

\* toggleListening, isListening is false: the try block and its catch.
\* thrown is what recognition.start() throws ("none": it returns).
ToggleStart(thrown) ==
  /\ recognitionRef # "null"
  /\ ~isListening
  /\ thrown \in StartThrows(capState)
  /\ transcript' = <<>>
  /\ finalTranscriptRef' = <<>>
  /\ lastCall' = "start"
  /\ sinceStart' = <<>>
  /\ lastInterims' = <<>>
  /\ IF thrown = "none"
     THEN /\ error' = Null
          /\ capState' = "capturing"
          /\ pending' = [current |-> 0,
                          earlier |-> pending.earlier + pending.current]
          /\ dispatches' = 0
          /\ lastInput' = <<>>
          /\ sessionFinals' = <<>>
          /\ late' = FALSE
          /\ isListening' = TRUE
     ELSE /\ error' = StartErrorMessage(thrown)
          /\ isListening' = FALSE
          /\ UNCHANGED << capState, network, sessionFinals, late >>
  /\ UNCHANGED << isSupported, recognitionRef, handlers, mounted >>

\* The toggle action of the button.
toggleListening ==
  /\ mounted
  /\ \/ ToggleUnsupported
     \/ ToggleStop
     \/ \E thrown \in { "none", "InvalidStateError", "Error" } :
          ToggleStart(thrown)

\* onresult without setError(null).
onresultKeepingError(results, resultIndex) ==
  /\ "onresult" \in handlers
  /\ capState # "inactive"
  /\ LET merged == MergeLoop(results, resultIndex, <<finalTranscriptRef, <<>>>>)
         slice  == Slice(results, resultIndex)
     IN  /\ finalTranscriptRef' = merged[1]
         /\ transcript' = Trim(merged[1] \o merged[2])
         /\ sessionFinals' = sessionFinals \o Concat(TextsOf(slice, TRUE))
         /\ sinceStart' = sinceStart \o Concat(TextsOf(slice, TRUE))
         /\ lastInterims' = TextsOf(slice, FALSE)
         /\ late' = (late \/ (~isListening /\ TextsOf(slice, TRUE) # <<>>))
         /\ Len(merged[1]) + Len(merged[2]) <= MaxLen
  /\ Len(sessionFinals') <= MaxLen
  /\ lastCall' = "none"
  /\ UNCHANGED << isListening, error, isSupported, recognitionRef, handlers,
                  mounted, capState, network >>

\* onresult whose loop starts at 0 instead of event.resultIndex.
onresultFromZero(results, resultIndex) ==
  /\ "onresult" \in handlers
  /\ capState # "inactive"
  /\ LET merged == MergeLoop(results, 0, <<finalTranscriptRef, <<>>>>)
         slice  == Slice(results, resultIndex)
     IN  /\ finalTranscriptRef' = merged[1]
         /\ transcript' = Trim(merged[1] \o merged[2])
         /\ sessionFinals' = sessionFinals \o Concat(TextsOf(slice, TRUE))
         /\ sinceStart' = sinceStart \o Concat(TextsOf(slice, TRUE))
         /\ lastInterims' = TextsOf(slice, FALSE)
         /\ late' = (late \/ (~isListening /\ TextsOf(slice, TRUE) # <<>>))
         /\ Len(merged[1]) + Len(merged[2]) <= MaxLen
  /\ Len(sessionFinals') <= MaxLen
  /\ error' = Null
  /\ lastCall' = "none"
  /\ UNCHANGED << isListening, isSupported, recognitionRef, handlers, mounted,
                  capState, network >>

\* recognition.onresult
onresult(results, resultIndex) ==
  /\ "onresult" \in handlers
  /\ capState # "inactive"
  /\ LET merged == MergeLoop(results, resultIndex, <<finalTranscriptRef, <<>>>>)
         slice  == Slice(results, resultIndex)
     IN  /\ finalTranscriptRef' = merged[1]
         /\ transcript' = Trim(merged[1] \o merged[2])
         /\ sessionFinals' = sessionFinals \o Concat(TextsOf(slice, TRUE))
         /\ sinceStart' = sinceStart \o Concat(TextsOf(slice, TRUE))
         /\ lastInterims' = TextsOf(slice, FALSE)
         /\ late' = (late \/ (~isListening /\ TextsOf(slice, TRUE) # <<>>))
         /\ Len(merged[1]) + Len(merged[2]) <= MaxLen
  /\ Len(sessionFinals') <= MaxLen
  /\ error' = Null
  /\ lastCall' = "none"
  /\ UNCHANGED << isListening, isSupported, recognitionRef, handlers, mounted,
                  capState, network >>

\* onerror without setIsListening(false).
onerrorStillListening(code) ==
  /\ "onerror" \in handlers
  /\ capState # "inactive"
  /\ error' = RecognitionErrorMessage(code)
  /\ capState' = "stopping"
  /\ lastCall' = "none"
  /\ UNCHANGED << isListening, transcript, isSupported, recognitionRef,
                  finalTranscriptRef, handlers, mounted, network, history >>

\* recognition.onerror; the recogniser ends the session after an error.
onerror(code) ==
  /\ "onerror" \in handlers
  /\ capState # "inactive"
  /\ error' = RecognitionErrorMessage(code)
  /\ isListening' = FALSE
  /\ capState' = "stopping"
  /\ lastCall' = "none"
  /\ UNCHANGED << transcript, isSupported, recognitionRef, finalTranscriptRef,
                  handlers, mounted, network, history >>

\* sendTranscript up to the await: the request leaves.
sendTranscript(text) ==
  /\ pending.current + pending.earlier < MaxPending
  /\ pending' = [pending EXCEPT !.current = @ + 1]
  /\ dispatches' = dispatches + 1
  /\ lastInput' = text

\* onend that also clears the displayed transcript.
onendClearing ==
  /\ capState # "inactive"
  /\ capState' = "inactive"
  /\ lastCall' = "none"
  /\ IF "onend" \in handlers
     THEN /\ isListening' = FALSE
          /\ transcript' = <<>>
          /\ LET textToSend == Trim(finalTranscriptRef)
             IN  IF textToSend # <<>>
                 THEN sendTranscript(textToSend)
                 ELSE UNCHANGED network
     ELSE UNCHANGED << isListening, transcript, network >>
  /\ UNCHANGED << error, isSupported, recognitionRef,
                  finalTranscriptRef, handlers, mounted, history >>

\* onend without setIsListening(false).
onendStillListening ==
  /\ capState # "inactive"
  /\ capState' = "inactive"
  /\ lastCall' = "none"
  /\ IF "onend" \in handlers
     THEN LET textToSend == Trim(finalTranscriptRef)
          IN  IF textToSend # <<>>
              THEN sendTranscript(textToSend)
              ELSE UNCHANGED network
     ELSE UNCHANGED network
  /\ UNCHANGED << isListening, transcript, error, isSupported, recognitionRef,
                  finalTranscriptRef, handlers, mounted, history >>

\* The recogniser fires "end": recognition.onend runs if still attached.
onend ==
  /\ capState # "inactive"
  /\ capState' = "inactive"
  /\ lastCall' = "none"
  /\ IF "onend" \in handlers
     THEN /\ isListening' = FALSE
          /\ LET textToSend == Trim(finalTranscriptRef)
             IN  IF textToSend # <<>>
                 THEN sendTranscript(textToSend)
                 ELSE UNCHANGED network
     ELSE UNCHANGED << isListening, network >>
  /\ UNCHANGED << transcript, error, isSupported, recognitionRef,
                  finalTranscriptRef, handlers, mounted, history >>

\* fetchSettles without the response.ok test: only a rejected fetch is
\* reported.
fetchSettlesUnchecked(which, outcome) ==
  /\ pending[which] > 0
  /\ pending' = [pending EXCEPT ![which] = @ - 1]
  /\ error' = IF outcome = "rejected" /\ mounted
              THEN DispatchFailureMessage(outcome)
              ELSE error
  /\ lastCall' = "none"
  /\ UNCHANGED << isListening, transcript, isSupported, recognitionRef,
                  finalTranscriptRef, handlers, mounted, capState, dispatches,
                  lastInput, history >>

\* sendTranscript from the await on: the fetch of a request settles, one
\* of the current session (which = "current") or of an earlier one.  A
\* state update of an unmounted component is dropped.
fetchSettles(which, outcome) ==
  /\ pending[which] > 0
  /\ pending' = [pending EXCEPT ![which] = @ - 1]
  /\ error' = IF outcome # "ok" /\ mounted
              THEN DispatchFailureMessage(outcome)
              ELSE error
  /\ lastCall' = "none"
  /\ UNCHANGED << isListening, transcript, isSupported, recognitionRef,
                  finalTranscriptRef, handlers, mounted, capState, dispatches,
                  lastInput, history >>

\* cleanup without "recognition.onend = null".
cleanupKeepingOnend ==
  /\ mounted
  /\ mounted' = FALSE
  /\ IF isSupported
     THEN /\ handlers' = { "onend" }
          /\ capState' = RecognitionStop(capState)
          /\ lastCall' = "stop"
          /\ recognitionRef' = "null"
     ELSE /\ lastCall' = "none"
          /\ UNCHANGED << handlers, capState, recognitionRef >>
  /\ UNCHANGED << reactState, finalTranscriptRef, network, history >>

\* The cleanup the mount effect returned; there is none when the probe
\* failed.
cleanup ==
  /\ mounted
  /\ mounted' = FALSE
  /\ IF isSupported
     THEN /\ handlers' = {}
          /\ capState' = RecognitionStop(capState)
          /\ lastCall' = "stop"
          /\ recognitionRef' = "null"
     ELSE /\ lastCall' = "none"
          /\ UNCHANGED << handlers, capState, recognitionRef >>
  /\ UNCHANGED << reactState, finalTranscriptRef, network, history >>

Next ==
  \/ toggleListening
  \/ \E resultIndex \in 0..MaxFrags :
       \E slice \in ResultLists(MaxFrags - resultIndex) :
         onresult(Earlier(resultIndex) \o slice, resultIndex)
  \/ \E code \in ErrorCodes : onerror(code)
  \/ onend
  \/ \E which \in { "current", "earlier" } : \E outcome \in FetchOutcomes :
       fetchSettles(which, outcome)
  \/ cleanup

Spec == Init /\ [][Next]_vars

TypeOK ==
  /\ isListening \in BOOLEAN
  /\ isSupported \in BOOLEAN
  /\ mounted \in BOOLEAN
  /\ recognitionRef \in { "recognition", "null" }
  /\ capState \in { "inactive", "capturing", "stopping" }
  /\ pending.current + pending.earlier <= MaxPending
  /\ dispatches \in 0..1
  /\ lastCall \in { "none", "start", "stop" }
  /\ handlers \subseteq AllHandlers
  /\ late \in BOOLEAN

\* ================================================================ claims
\* The text of the last element of a sequence of texts, "" if it has none.
LastText(texts) == IF texts = <<>> THEN <<>> ELSE texts[Len(texts)]

C2_AtMostOnce == dispatches <= 1

\* A session whose one request was sent after a stop, a refused start and
\* a further final result.
C2_Witness ==
  /\ dispatches = 1
  /\ pending.current = 1
  /\ lastInput # Trim(sessionFinals)

\* C3 as stated: once a session has ended (the end notification was
\* handled), a request was sent for it if and only if the trimmed
\* concatenation of the final fragments it received is not empty.
C3_DispatchIffFinalized ==
  (mounted /\ capState = "inactive") =>
    ((dispatches >= 1) <=> (Trim(sessionFinals) # <<>>))

\* C4 as stated: the input of a session's request is exactly the trimmed
\* concatenation of the final fragments the session received.
C4_DispatchBody ==
  (dispatches >= 1) => (lastInput = Trim(sessionFinals))

\* s is a suffix of t.
IsSuffix(s, t) ==
  /\ Len(s) <= Len(t)
  /\ s = SubSeq(t, Len(t) - Len(s) + 1, Len(t))

DispatchFailureMessages ==
  { "Failed to send transcript: Request failed with status 500",
    "Failed to send transcript: Failed to fetch" }

\* C5 as stated: a successful start leaves the final buffer, the displayed
\* transcript and the error cleared, and while the new session is open
\* nothing of an earlier session shows: the final buffer holds only finals
\* of this session, the displayed transcript is made of the buffer and this
\* session's interim text, and the error is not the failure of a request
\* (a request is sent only when a session ends, so a failure shown while a
\* session is open is an earlier session's).
C5_FreshSession ==
  /\ [][(toggleListening /\ capState = "inactive" /\ capState' = "capturing")
          => /\ finalTranscriptRef' = <<>>
             /\ transcript' = <<>>
             /\ error' = Null]_vars
  /\ [](capState # "inactive" =>
          /\ IsSuffix(finalTranscriptRef, sessionFinals)
          /\ transcript = Trim(finalTranscriptRef \o Concat(lastInterims))
          /\ error \notin DispatchFailureMessages)

\* The number of requests in flight.
InFlight(p) == p.current + p.earlier

C7_Unsupported ==
  [][~isSupported =>
       /\ ~isSupported'
       /\ ~isListening'
       /\ lastCall' = "none"
       /\ capState' = "inactive"
       /\ recognitionRef' = "null"
       /\ (toggleListening =>
             error' = "Speech recognition is not supported in this browser.")
    ]_vars

\* An Unsupported controller was toggled.
C7_Witness ==
  /\ ~isSupported
  /\ mounted
  /\ error = UnsupportedMessage
  /\ ~isListening
  /\ lastCall = "none"

\* What the spec's ErrorInfo of a recognition error code reads as:
\* PermissionDenied, NoSpeechDetected, RecognitionFailure(code).
ClassifiedAs(code) ==
  CASE code = "not-allowed" ->
         "Microphone access denied. Please allow microphone permissions."
    [] code = "no-speech" -> "No speech detected. Please try again."
    [] OTHER -> "Speech recognition error: " \o code

\* C8: a recognition error that arrives while Listening leaves the
\* controller not listening, with the classified error shown and the
\* displayed transcript and final buffer as before, and sends nothing; and
\* a session in which nothing was finalized sends nothing when it ends.
C8_RecognitionError ==
  [][/\ \A code \in ErrorCodes :
          (isListening /\ onerror(code))
            => /\ ~isListening'
               /\ error' = ClassifiedAs(code)
               /\ transcript' = transcript
               /\ finalTranscriptRef' = finalTranscriptRef
               /\ InFlight(pending') = InFlight(pending)
               /\ dispatches' = dispatches
     /\ (onend /\ sessionFinals = <<>>)
            => /\ InFlight(pending') = InFlight(pending)
               /\ dispatches' = 0
    ]_vars

\* Permission was denied in mid-session: the session has ended, nothing
\* was finalized or sent, and the interim text shown before the error is
\* still displayed.
C8_Witness ==
  /\ error = "Microphone access denied. Please allow microphone permissions."
  /\ capState = "inactive"
  /\ ~isListening
  /\ transcript # <<>>
  /\ sessionFinals = <<>>
  /\ dispatches = 0
  /\ InFlight(pending) = 0

\* C9: when the fetch of a request fails (a non-2xx status or a rejected
\* promise) the failure is shown, nothing is sent again, no recogniser
\* method is called and the listening flag and the recogniser are left
\* alone; if no session was started since the request was sent the
\* controller is Idle with the recogniser inactive, so that a start
\* request is taken and start() need not throw.
C9_DispatchFailure ==
  [][\A which \in { "current", "earlier" } :
       \A outcome \in FetchOutcomes \ { "ok" } :
         (mounted /\ fetchSettles(which, outcome))
           => /\ error' \in DispatchFailureMessages
              /\ InFlight(pending') = InFlight(pending) - 1
              /\ dispatches' = dispatches
              /\ lastCall' = "none"
              /\ capState' = capState
              /\ isListening' = isListening
              /\ (which = "current" =>
                    /\ ~isListening'
                    /\ recognitionRef' # "null"
                    /\ capState' = "inactive"
                    /\ "none" \in StartThrows(capState'))
    ]_vars

\* The server answered 500 to the one request of a session: the failure is
\* shown, nothing is in flight and the controller is Idle.
C9_Witness ==
  /\ error = "Failed to send transcript: Request failed with status 500"
  /\ dispatches = 1
  /\ InFlight(pending) = 0
  /\ ~isListening
  /\ capState = "inactive"
  /\ mounted

\* C10 as stated: a start request that the recogniser refuses shows
\* AlreadyRunning (InvalidStateError) or the generic start failure,
\* leaves the controller Idle, and on AlreadyRunning keeps the displayed
\* transcript and the final buffer.
C10_RefusedStartKeepsBuffers ==
  [][\A thrown \in { "InvalidStateError", "Error" } :
       (mounted /\ ToggleStart(thrown))
         => /\ ~isListening'
            /\ error' = IF thrown = "InvalidStateError"
                        THEN AlreadyRunningMessage
                        ELSE StartFailedMessage
            /\ (thrown = "InvalidStateError" =>
                  /\ transcript' = transcript
                  /\ finalTranscriptRef' = finalTranscriptRef)
    ]_vars

\* s is a prefix of t.
IsPrefix(s, t) ==
  /\ Len(s) <= Len(t)
  /\ s = SubSeq(t, 1, Len(s))

\* C11 as stated: while Listening every step leaves the final buffer as it
\* is or appends to it, and a step that takes text away from the buffer is
\* the transition into a new Listening state.
C11_GrowsClearedOnlyEnteringListening ==
  [][/\ isListening => IsPrefix(finalTranscriptRef, finalTranscriptRef')
     /\ ~IsPrefix(finalTranscriptRef, finalTranscriptRef')
          => (~isListening /\ isListening')
    ]_vars

\* C12 as stated: when a request of an earlier session settles, well or
\* badly, after a new session was started, the listening flag, the displayed
\* transcript, the final buffer and the error of the controller are left as
\* they were.
C12_EarlierRequestLeavesSession ==
  [][\A outcome \in FetchOutcomes :
       (mounted /\ fetchSettles("earlier", outcome))
         => UNCHANGED << isListening, transcript, finalTranscriptRef, error >>
    ]_vars

\* C13: the teardown of a supported controller detaches the three handlers
\* and calls stop(), so that the recogniser no longer captures; and once
\* torn down no step changes the controller's state or buffers or sends a
\* request.
C13_Teardown ==
  [][/\ (mounted /\ ~mounted' /\ isSupported)
          => /\ handlers' = {}
             /\ lastCall' = "stop"
             /\ capState' # "capturing"
     /\ ~mounted
          => /\ UNCHANGED << reactState, finalTranscriptRef, handlers,
                             dispatches, lastInput, mounted >>
             /\ InFlight(pending') <= InFlight(pending)
    ]_vars

\* The controller was torn down while Listening with final text in the
\* buffer; the end notification has come since and nothing was sent.
C13_Witness ==
  /\ ~mounted
  /\ isListening
  /\ capState = "inactive"
  /\ Trim(finalTranscriptRef) # <<>>
  /\ dispatches = 0
  /\ InFlight(pending) = 0

\* C14: a stop() of the caller only asks the recogniser to halt and sends
\* nothing itself; every request is sent by the step that handles an end
\* notification, and it is the first request of its session, so a stop()
\* and an end of the same session, in either order, send at most once.
C14_OnlyEndDispatches ==
  [][/\ (mounted' /\ lastCall' = "stop")
          => /\ UNCHANGED network
             /\ capState' # "capturing"
     /\ (dispatches' > dispatches \/ InFlight(pending') > InFlight(pending))
          => /\ capState # "inactive"
             /\ capState' = "inactive"
             /\ dispatches = 0
             /\ dispatches' = 1
    ]_vars

\* The caller has just stopped a session with final text in the buffer:
\* the recogniser has not ended yet and nothing has been sent.
C14_Witness ==
  /\ mounted
  /\ lastCall = "stop"
  /\ capState = "stopping"
  /\ Trim(finalTranscriptRef) # <<>>
  /\ dispatches = 0
  /\ InFlight(pending) = 0

\* C15: a stop(), an end notification and the settling of a request leave
\* the displayed transcript as it was; it changes only in the handling of
\* a result event of the running session or in a start(), so after the
\* session has ended its text stays displayed until the next start().
C15_TranscriptStays ==
  [][/\ ( \/ lastCall' = "stop"
          \/ capState # "inactive" /\ capState' = "inactive"
          \/ InFlight(pending') < InFlight(pending) )
          => transcript' = transcript
     /\ transcript' # transcript
          => \/ lastCall' = "start"
             \/ /\ capState # "inactive"
                /\ capState' = capState
                /\ isListening' = isListening
                /\ lastCall' = "none"
    ]_vars

\* A session was stopped and ended, its request has been sent and has
\* settled, and its text is still displayed.
C15_Witness ==
  /\ mounted
  /\ transcript # <<>>
  /\ capState = "inactive"
  /\ ~isListening
  /\ dispatches = 1
  /\ InFlight(pending) = 0

\* The step handles a result event.
ResultHandled ==
  \E resultIndex \in 0..MaxFrags :
    \E slice \in ResultLists(MaxFrags - resultIndex) :
      onresult(Earlier(resultIndex) \o slice, resultIndex)

\* C16 as stated: right after a result event is handled or a start() is
\* performed no error is displayed.
C16_NoErrorAfterResultOrStart ==
  [][(ResultHandled \/ lastCall' = "start") => error' = Null]_vars

\* C16: every handled result event clears the error; a start() that the
\* recogniser accepts clears it, and one that it refuses replaces it by
\* that start's own failure message; the error is cleared in no other
\* step.
C16_ErrorCleared ==
  [][/\ ResultHandled => error' = Null
     /\ lastCall' = "start"
          => IF isListening'
             THEN error' = Null
             ELSE error' \in { AlreadyRunningMessage, StartFailedMessage }
     /\ (error # Null /\ error' = Null)
          => (ResultHandled \/ lastCall' = "start")
    ]_vars

\* A start() was refused while the recogniser was stopping, which
\* displayed its error, and a later result event has cleared it.
C16_Witness ==
  /\ mounted
  /\ capState = "stopping"
  /\ sessionFinals # sinceStart
  /\ sinceStart # <<>>
  /\ error = Null

\* C17: a result event appends to the final buffer the final fragments
\* at and above its resume index, in their order, and nothing of the
\* fragments below it; so the buffer holds each final fragment delivered
\* since the last start() once, in arrival order.
C17_FromResumeIndex ==
  [][/\ \A resultIndex \in 0..MaxFrags :
          \A slice \in ResultLists(MaxFrags - resultIndex) :
            onresult(Earlier(resultIndex) \o slice, resultIndex)
              => finalTranscriptRef'
                   = finalTranscriptRef \o Concat(TextsOf(slice, TRUE))
     /\ finalTranscriptRef' = sinceStart'
    ]_vars

\* Two final fragments have been appended to the buffer of a running
\* session.
C17_Witness ==
  /\ mounted
  /\ isListening
  /\ capState = "capturing"
  /\ Len(finalTranscriptRef) = 2
  /\ finalTranscriptRef = sinceStart

\* A start() that the recogniser accepts enters Listening with empty
\* buffers and no error.
FreshStart ==
  /\ toggleListening
  /\ isListening'
  /\ capState' = "capturing"
  /\ finalTranscriptRef' = <<>>
  /\ transcript' = <<>>
  /\ error' = Null

\* C18: whatever error was reported before, once the recogniser has
\* ended the session a supported, mounted controller is not Listening,
\* still holds its recogniser, and its next start() can enter Listening
\* with fresh buffers.
C18_Recoverable ==
  (mounted /\ isSupported /\ capState = "inactive")
    => /\ ~isListening
       /\ recognitionRef # "null"
       /\ ENABLED FreshStart

\* The recogniser reported a network error and has ended the session.
C18_Witness ==
  /\ mounted
  /\ capState = "inactive"
  /\ error = RecognitionErrorMessage("network")

\* C19: in every reachable state of a mounted controller a true listening
\* flag means the recogniser is capturing, and the flag turns true only
\* in a start() the idle recogniser accepted.  The converse fails between
\* a stop() or an error and the end notification (C19_Witness).
C19_ListeningImpliesCapturing ==
  /\ []((mounted /\ isListening) => capState = "capturing")
  /\ [][(~isListening /\ isListening')
          => (lastCall' = "start" /\ capState = "inactive"
                /\ capState' = "capturing")
       ]_vars

\* The recogniser reported an error and has not ended yet: the session
\* is still open while the flag is already false.
C19_Witness ==
  /\ mounted
  /\ ~isListening
  /\ capState = "stopping"
  /\ error = RecognitionErrorMessage("no-speech")

\* C20 as stated: a result event is merged whatever the listening flag
\* says, so a final fragment that arrives after the stop() or the error
\* and before the end notification is appended to the final buffer and
\* displayed, and the request sent at the end of that session carries the
\* session's final text, the late fragments included.
C20_LateFinalsDispatched ==
  [][/\ \A resultIndex \in 0..MaxFrags :
          \A slice \in ResultLists(MaxFrags - resultIndex) :
            (~isListening
               /\ onresult(Earlier(resultIndex) \o slice, resultIndex))
              => /\ IsSuffix(Concat(TextsOf(slice, TRUE)), finalTranscriptRef')
                 /\ transcript'
                      = Trim(finalTranscriptRef' \o Concat(TextsOf(slice, FALSE)))
     /\ ( /\ late
          /\ mounted
          /\ Trim(sessionFinals) # <<>>
          /\ capState # "inactive"
          /\ capState' = "inactive" )
          => /\ dispatches' = 1
             /\ lastInput' = Trim(sessionFinals)
    ]_vars

====
